---- MODULE Spec2Model ----
(***************************************************************************)
(* A model of the drive parser (parse_games.py) and of the drive-scoring   *)
(* engine (score_teams.py) of the nfl repository.                          *)
(*                                                                         *)
(* The working table `df` is a sequence of records, one per drive; a       *)
(* column is a record field.  A float (or an integer column that may hold  *)
(* NaN) is an exact rational <<n, d>> with d > 0 in lowest terms, and NaN  *)
(* is the empty tuple.  An object column (team codes, bucket labels) is a  *)
(* string, its missing value the string NA.  A clock string is the tuple   *)
(* of its characters, compared as Python compares strings.                 *)
(***************************************************************************)
EXTENDS Integers, Sequences, FiniteSets, TLC

VARIABLES
    drives,  \* the drives file of the season: parse_game's records
    df,      \* the working table of drives
    pc,      \* the position in the pipeline
    parser,  \* parse_game's locals: the raw game, the loop index, game_drives
    args,    \* the arguments of the run: exclude_playoffs, n_iters, step_size
    round    \* opponent_strength_adjustment's loop counter

vars == <<drives, df, pc, parser, args, round>>

\* the values of the variables a specification does not use
NoParser == [status |-> "idle", game_drives |-> <<>>]
NoArgs == [exclude_playoffs |-> FALSE]

----------------------------------------------------------------------------
(* Numbers: exact rationals, NaN.                                          *)

NaN == <<>>
NA == "<NA>"

IsNaN(x) == x = NaN

Abs(n) == IF n < 0 THEN -n ELSE n

RECURSIVE GCD(_, _)
GCD(a, b) == IF b = 0 THEN a ELSE GCD(b, a % b)

\* n/d in lowest terms, d > 0
Rat(n, d) ==
    LET s == IF d < 0 THEN -1 ELSE 1
        g == GCD(Abs(n), Abs(d))
    IN  <<(s * n) \div g, (s * d) \div g>>

Num(n) == <<n, 1>>

\* float arithmetic: NaN propagates
RAdd(x, y) == IF IsNaN(x) \/ IsNaN(y) THEN NaN
              ELSE Rat(x[1] * y[2] + y[1] * x[2], x[2] * y[2])
RSub(x, y) == IF IsNaN(x) \/ IsNaN(y) THEN NaN
              ELSE Rat(x[1] * y[2] - y[1] * x[2], x[2] * y[2])
RMul(x, y) == IF IsNaN(x) \/ IsNaN(y) THEN NaN
              ELSE Rat(x[1] * y[1], x[2] * y[2])
\* comparisons: any comparison with NaN is false
RLess(x, y) == ~IsNaN(x) /\ ~IsNaN(y) /\ x[1] * y[2] < y[1] * x[2]
RLeq(x, y) == ~IsNaN(x) /\ ~IsNaN(y) /\ x[1] * y[2] <= y[1] * x[2]

\* Series.mean(): the mean of the non-NaN values of s, NaN when there is none
RECURSIVE SumSeq(_)
SumSeq(s) == IF s = <<>> THEN Num(0) ELSE RAdd(Head(s), SumSeq(Tail(s)))

Mean(s) ==
    LET v == SelectSeq(s, LAMBDA x : ~IsNaN(x))
    IN  IF v = <<>> THEN NaN ELSE RMul(SumSeq(v), Rat(1, Len(v)))

\* the rows of table t (in order) that satisfy Test
Rows(t, Test(_)) == SelectSeq(t, Test)

\* the table whose i-th row is f[i], for f a function on 1 .. n
Table(f) == SubSeq(f, 1, Len(f))

\* add (or overwrite) column col of row r
WithCol(r, col, v) == (col :> v) @@ r

----------------------------------------------------------------------------
(* bin_yard_lines                                                          *)

FieldLength == 100
BinWidth == 10

\* lower = np.arange(0, 100, 10): the left edges of the ten intervals
BinLower == {k * BinWidth : k \in 0 .. (FieldLength \div BinWidth) - 1}

\* '%s-%s' % (x.left, x.right)
BinLabel(lo) ==
    CASE lo = 0 -> "0-10" [] lo = 10 -> "10-20" [] lo = 20 -> "20-30"
      [] lo = 30 -> "30-40" [] lo = 40 -> "40-50" [] lo = 50 -> "50-60"
      [] lo = 60 -> "60-70" [] lo = 70 -> "70-80" [] lo = 80 -> "80-90"
      [] lo = 90 -> "90-100"

\* pd.cut(x, IntervalIndex.from_tuples(bins)): from_tuples closes an
\* interval on the right, so x falls in (lo, lo + 10]; a value in no
\* interval, and NaN, give a missing label.
Cut(x) ==
    LET hit == {lo \in BinLower :
                  RLess(Num(lo), x) /\ RLeq(x, Num(lo + BinWidth))}
    IN  IF hit = {} THEN NA ELSE BinLabel(CHOOSE lo \in hit : TRUE)

BinColumn(prefix) ==
    CASE prefix = "start" -> "start_yard_line_bin"
      [] prefix = "end" -> "end_yard_line_bin"
      [] prefix = "next_start" -> "next_start_yard_line_bin"
      [] prefix = "start_opp_expected" -> "start_opp_expected_yard_line_bin"
      [] prefix = "end_opp_expected" -> "end_opp_expected_yard_line_bin"

BinYardLinesOf(t, binned_column, prefix) ==
    Table([i \in DOMAIN t |->
        WithCol(t[i], BinColumn(prefix), Cut(t[i][binned_column]))])

----------------------------------------------------------------------------
(* Strings as tuples of characters, ordered as Python orders str.          *)

CharCode(c) ==
    CASE c = "0" -> 48 [] c = "1" -> 49 [] c = "2" -> 50 [] c = "3" -> 51
      [] c = "4" -> 52 [] c = "5" -> 53 [] c = "6" -> 54 [] c = "7" -> 55
      [] c = "8" -> 56 [] c = "9" -> 57 [] c = ":" -> 58

RECURSIVE StrLess(_, _)
StrLess(a, b) ==
    IF b = <<>> THEN FALSE
    ELSE IF a = <<>> THEN TRUE
    ELSE IF CharCode(Head(a)) # CharCode(Head(b))
         THEN CharCode(Head(a)) < CharCode(Head(b))
    ELSE StrLess(Tail(a), Tail(b))

\* the clock string of a game's first play
KickoffTime == <<"1", "5", ":", "0", "0">>

----------------------------------------------------------------------------
(* preprocess_drives, up to clean_games                                    *)

\* get_season: game_id is YYYYMMDDnn
get_season(game_id) ==
    LET month == (game_id \div 10000) % 100
        year == game_id \div 1000000
    IN  IF month > 8 THEN year ELSE year - 1

\* pd.DataFrame(drives); drive_id = index; season
NewFrame(file) ==
    Table([i \in DOMAIN file |->
        WithCol(WithCol(file[i], "drive_id", i - 1),
                "season", get_season(file[i].game_id))])

pro_bowl_teams == {"APR", "NPR", "AFC", "NFC", "IRV", "CRT", "RIC", "SAN"}

\* team_map.get(team, team)
team_map(team) ==
    CASE team = "STL" -> "LA" [] team = "SD" -> "LAC" [] team = "JAC" -> "JAX"
      [] OTHER -> team

clean_games(t) ==
    LET kept == SelectSeq(t, LAMBDA r : r.away_team \notin pro_bowl_teams)
    IN  Table([i \in DOMAIN kept |->
            [kept[i] EXCEPT !.away_team = team_map(@),
                            !.home_team = team_map(@),
                            !.offensive_team = team_map(@),
                            !.defensive_team = team_map(@)]])

----------------------------------------------------------------------------
(* mark_playoffs                                                           *)

\* the same order with the clock ascending
SortsBefore_ClockAscending(a, b) ==
    \/ a.game_id < b.game_id
    \/ /\ a.game_id = b.game_id
       /\ \/ a.start_quarter < b.start_quarter
          \/ /\ a.start_quarter = b.start_quarter
             /\ StrLess(a.start_time, b.start_time)

\* the order of sort_values(['game_id', 'start_quarter', 'start_time'],
\* ascending=[True, True, False]): strictly before
SortsBefore(a, b) ==
    \/ a.game_id < b.game_id
    \/ /\ a.game_id = b.game_id
       /\ \/ a.start_quarter < b.start_quarter
          \/ /\ a.start_quarter = b.start_quarter
             /\ StrLess(b.start_time, a.start_time)

\* merge of two sorted tables: the middle row of a goes after the rows of
\* b that sort strictly before it, so of two rows with equal keys the one
\* of a, which came first, stays first
RECURSIVE Merge(_, _)
Merge(a, b) ==
    IF a = <<>> THEN b
    ELSE IF b = <<>> THEN a
    ELSE LET m == (Len(a) + 1) \div 2
             k == Cardinality({j \in DOMAIN b : SortsBefore(b[j], a[m])})
         IN  Merge(SubSeq(a, 1, m - 1), SubSeq(b, 1, k))
               \o <<a[m]>>
               \o Merge(SubSeq(a, m + 1, Len(a)), SubSeq(b, k + 1, Len(b)))

\* a sort on several columns is stable: rows with equal keys keep their order
RECURSIVE sort_values(_)
sort_values(t) ==
    IF Len(t) <= 1 THEN t
    ELSE LET half == Len(t) \div 2
         IN  Merge(sort_values(SubSeq(t, 1, half)),
                   sort_values(SubSeq(t, half + 1, Len(t))))

PlayoffCutoff == 256

IsFirstPlay(r) == r.start_quarter = 1 /\ r.start_time = KickoffTime

UniqueGameFlag(r) == IF IsFirstPlay(r) THEN 1 ELSE 0

\* groupby('season')['unique_game_flag'].transform('cumsum'): the running
\* count of each season, row by row; seen[s] is the count of season s in
\* the rows before t
RECURSIVE CumSum(_, _)
CumSum(t, seen) ==
    IF t = <<>> THEN <<>>
    ELSE IF Len(t) = 1
         THEN <<seen[t[1].season] + UniqueGameFlag(t[1])>>
    ELSE LET half == Len(t) \div 2
             left == SubSeq(t, 1, half)
             flags(s) == Cardinality({j \in DOMAIN left :
                             left[j].season = s /\ IsFirstPlay(left[j])})
         IN  CumSum(left, seen)
               \o CumSum(SubSeq(t, half + 1, Len(t)),
                         [s \in DOMAIN seen |-> seen[s] + flags(s)])

GameInSeason(t) ==
    CumSum(t, [s \in {t[i].season : i \in DOMAIN t} |-> 0])

\* mutant: the game that reaches the cutoff is flagged too
IsPlayoffs_AtCutoff(game_in_season) ==
    IF game_in_season >= PlayoffCutoff THEN 1 ELSE 0

IsPlayoffs(game_in_season) == IF game_in_season > PlayoffCutoff THEN 1 ELSE 0

mark_playoffs(t) ==
    LET s == sort_values(t)
        g == GameInSeason(s)
    IN  Table([i \in DOMAIN s |->
            [unique_game_flag |-> UniqueGameFlag(s[i]),
             game_in_season |-> g[i],
             is_playoffs |-> IsPlayoffs(g[i])] @@ s[i]])

----------------------------------------------------------------------------
(* preprocess_drives: the playoff filter and the yardage                   *)

\* the yardage with the end of the drive kept on the field
FilterAndYards_Clipped(t, exclude_playoffs) ==
    LET kept == IF exclude_playoffs
                THEN SelectSeq(t, LAMBDA r : r.is_playoffs = 0)
                ELSE t
    IN  Table([i \in DOMAIN kept |->
            LET total == RAdd(kept[i].penalty_yards, kept[i].yards_gained)
                end == RAdd(kept[i].start_yard_line, total)
            IN  [total_yards |-> total,
                 end_yard_line |->
                     IF RLess(end, Num(0)) THEN Num(0)
                     ELSE IF RLess(Num(FieldLength), end) THEN Num(FieldLength)
                     ELSE end]
                @@ kept[i]])

FilterAndYards(t, exclude_playoffs) ==
    LET kept == IF exclude_playoffs
                THEN SelectSeq(t, LAMBDA r : r.is_playoffs = 0)
                ELSE t
    IN  Table([i \in DOMAIN kept |->
            LET total == RAdd(kept[i].penalty_yards, kept[i].yards_gained)
            IN  [total_yards |-> total,
                 end_yard_line |-> RAdd(kept[i].start_yard_line, total)]
                @@ kept[i]])

----------------------------------------------------------------------------
(* get_next_opponent_drive                                                 *)

\* mutant: shift(1), the row before
ShiftNum_Prev(t, i, col) == IF i > 1 THEN t[i - 1][col] ELSE NaN

\* Series.shift(-1): the next row's value, missing on the last row
ShiftNum(t, i, col) == IF i < Len(t) THEN t[i + 1][col] ELSE NaN
ShiftObj(t, i, col) == IF i < Len(t) THEN t[i + 1][col] ELSE NA

SameTeamMask(t, i) == t[i].offensive_team = ShiftObj(t, i, "offensive_team")

NewGameMask(t, i) ==
    \/ t[i].home_team # ShiftObj(t, i, "home_team")
    \/ t[i].away_team # ShiftObj(t, i, "away_team")

get_next_opponent_drive(t) ==
    Table([i \in DOMAIN t |->
        LET cut == SameTeamMask(t, i) \/ NewGameMask(t, i)
        IN  [next_start_yard_line |->
                 IF cut THEN NaN ELSE ShiftNum(t, i, "start_yard_line"),
             next_end_yard_line |->
                 IF cut THEN NaN ELSE ShiftNum(t, i, "end_yard_line"),
             next_offensive_team |->
                 IF NewGameMask(t, i) THEN NA
                 ELSE ShiftObj(t, i, "offensive_team")] @@ t[i]])

\* preprocess_drives' three calls of bin_yard_lines
BinAll(t) ==
    BinYardLinesOf(
        BinYardLinesOf(
            BinYardLinesOf(t, "start_yard_line", "start"),
            "end_yard_line", "end"),
        "next_start_yard_line", "next_start")

----------------------------------------------------------------------------
(* mark_offensive_scores, mark_dst_scores                                  *)

\* A play description is the tuple of its phrases.
\* str.contains(w): some phrase is w
Contains(desc, w) == \E i \in DOMAIN desc : desc[i] = w

\* str.contains(r'a.*b'): phrase a, and phrase b somewhere after it
ContainsThen(desc, a, b) ==
    \E i \in DOMAIN desc : \E j \in DOMAIN desc :
        i < j /\ desc[i] = a /\ desc[j] = b

TwoPointMask(r) ==
    /\ ContainsThen(r.last_play_desc, "TWO-POINT CONV", "SUCCEEDS")
    /\ ~ContainsThen(r.last_play_desc, "SUCCEEDS", "REVERSED")
    /\ ~ContainsThen(r.last_play_desc, "SUCCEEDS", "NULLIFIED")

mark_offensive_scores(t) ==
    Table([i \in DOMAIN t |->
        LET r == t[i]
            td == r.result = "Touchdown"
            fg == r.result = "Field Goal"
            xp == Contains(r.last_play_desc, "extra point is GOOD")
        IN  [expected_points |-> IF td THEN Num(7) ELSE Num(0),
             offensive_points |->
                 (IF td THEN 6 ELSE 0) + (IF fg THEN 3 ELSE 0)
                 + (IF xp THEN 1 ELSE 0) + (IF TwoPointMask(r) THEN 2 ELSE 0),
             is_touchdown |-> IF td THEN 1 ELSE 0,
             is_field_goal |-> IF fg THEN 1 ELSE 0,
             is_score |-> IF td \/ fg THEN 1 ELSE 0] @@ r])

\* mutant: a reversed or nullified touchdown counts
DstTdMask_NoNegation(r) ==
    r.result # "Touchdown" /\ Contains(r.last_play_desc, "TOUCHDOWN")

\* td_mask of mark_dst_scores
DstTdMask(r) ==
    /\ r.result # "Touchdown"
    /\ Contains(r.last_play_desc, "TOUCHDOWN")
    /\ ~ContainsThen(r.last_play_desc, "TOUCHDOWN", "REVERSED")
    /\ ~ContainsThen(r.last_play_desc, "TOUCHDOWN", "NULLIFIED")

SafetyMask(r) == r.result \in {"Safety", "Fumble, Safety"}

\* the rows whose expected_points mark_dst_scores sets to -7
DstMinusSeven(r) ==
    (r.result = "Interception" \/ r.result = "Fumble") /\ DstTdMask(r)

mark_dst_scores(t) ==
    Table([i \in DOMAIN t |->
        LET r == t[i]
            int == r.result = "Interception"
            fum == r.result = "Fumble"
            td == DstTdMask(r)
        IN  [is_interception |-> IF int THEN 1 ELSE 0,
             is_fumble |-> IF fum THEN 1 ELSE 0,
             result |-> IF int /\ td THEN "Interception, Touchdown"
                        ELSE IF fum /\ td THEN "Fumble, Touchdown"
                        ELSE r.result,
             expected_points |-> IF SafetyMask(r) THEN Num(-2)
                                 ELSE IF DstMinusSeven(r) THEN Num(-7)
                                 ELSE r.expected_points,
             dst_points |-> (IF td THEN 7 ELSE 0)
                            + (IF SafetyMask(r) THEN 2 ELSE 0)] @@ r])

----------------------------------------------------------------------------
(* get_current_score                                                       *)

\* groupby('game_id')[column].transform('cumsum') at row i
RECURSIVE GameCumSum(_, _, _, _)
GameCumSum(t, i, k, column) ==
    IF k = 0 THEN 0
    ELSE GameCumSum(t, i, k - 1, column)
           + (IF t[k].game_id = t[i].game_id THEN t[k][column] ELSE 0)

\* home_points, away_points: the points of the drive, by the masks
DrivePoints(t) ==
    Table([i \in DOMAIN t |->
        LET r == t[i]
        IN  [home_points |->
                 (IF r.home_team = r.offensive_team
                  THEN r.offensive_points ELSE 0)
                 + (IF r.home_team = r.defensive_team
                    THEN r.dst_points ELSE 0),
             away_points |->
                 (IF r.away_team = r.offensive_team
                  THEN r.offensive_points ELSE 0)
                 + (IF r.away_team = r.defensive_team
                    THEN r.dst_points ELSE 0)] @@ r])

\* the value written under home_mask, then under away_mask, over a 0
MaskedScore(home_mask, away_mask, home_score, away_score) ==
    IF away_mask THEN away_score ELSE IF home_mask THEN home_score ELSE 0

get_current_score(t) ==
    LET p == DrivePoints(t)
    IN  Table([i \in DOMAIN p |->
            LET r == p[i]
                home_score_end == GameCumSum(p, i, i, "home_points")
                away_score_end == GameCumSum(p, i, i, "away_points")
                offensive_end ==
                    MaskedScore(r.home_team = r.offensive_team,
                                r.away_team = r.offensive_team,
                                home_score_end, away_score_end)
                defensive_end ==
                    MaskedScore(r.home_team = r.defensive_team,
                                r.away_team = r.defensive_team,
                                home_score_end, away_score_end)
            IN  [home_score_end |-> home_score_end,
                 away_score_end |-> away_score_end,
                 offensive_team_score_end |-> offensive_end,
                 defensive_team_score_end |-> defensive_end,
                 home_score_start |-> home_score_end - r.home_points,
                 away_score_start |-> away_score_end - r.away_points,
                 offensive_team_score_start |->
                     offensive_end - r.offensive_points,
                 defensive_team_score_start |->
                     defensive_end - r.dst_points] @@ r])

----------------------------------------------------------------------------
(* add_field_goal_points                                                   *)

FieldGoalResults == {"Field Goal", "Missed FG", "Blocked FG", "Blocked FG, Downs"}

FieldGoalMask(r) == r.result \in FieldGoalResults

MadeFieldGoal(r) == IF r.result = "Field Goal" THEN Num(1) ELSE Num(0)

\* mutant: one make-rate for the whole table, whatever the bucket
FieldGoalRate_AllBuckets(t, r) ==
    LET grp == SelectSeq(t, FieldGoalMask)
    IN  Mean([j \in DOMAIN grp |-> MadeFieldGoal(grp[j])])

\* field_goal_agg['made_field_goal'].transform('mean') at row r: the mean
\* over the attempts of r's end bucket; groupby drops a missing key, and
\* the row gets NaN
FieldGoalRate(t, r) ==
    IF r.end_yard_line_bin = NA THEN NaN
    ELSE LET grp == SelectSeq(t, LAMBDA q :
                       FieldGoalMask(q)
                       /\ q.end_yard_line_bin = r.end_yard_line_bin)
         IN  Mean([j \in DOMAIN grp |-> MadeFieldGoal(grp[j])])

FieldGoalPoints(t, r) == RMul(FieldGoalRate(t, r), Num(3))

add_field_goal_points(t) ==
    Table([i \in DOMAIN t |->
        IF FieldGoalMask(t[i])
        THEN [t[i] EXCEPT !.expected_points = FieldGoalPoints(t, t[i])]
        ELSE t[i]])

----------------------------------------------------------------------------
(* add_field_position_points                                               *)

\* groupby(bin_column)['next_start_yard_line'].transform('mean') at row r:
\* groupby drops a missing key, and the row gets NaN
OppExpectedStart(t, r, bin_column) ==
    IF r[bin_column] = NA THEN NaN
    ELSE LET grp == SelectSeq(t, LAMBDA q : q[bin_column] = r[bin_column])
         IN  Mean([j \in DOMAIN grp |-> grp[j].next_start_yard_line])

\* a bucket without a league average reads as 0
MapNflAgg_ZeroFill(t, label) ==
    LET grp == SelectSeq(t, LAMBDA q : q.start_yard_line_bin = label)
    IN  IF label = NA \/ grp = <<>> THEN Num(0)
        ELSE Mean([j \in DOMAIN grp |-> grp[j].expected_points])

\* Series.map(nfl_agg) at one label, nfl_agg being
\* groupby('start_yard_line_bin')['expected_points'].mean(): NaN for a
\* missing label and for a bucket no drive starts in
MapNflAgg(t, label) ==
    LET grp == SelectSeq(t, LAMBDA q : q.start_yard_line_bin = label)
    IN  IF label = NA \/ grp = <<>> THEN NaN
        ELSE Mean([j \in DOMAIN grp |-> grp[j].expected_points])

add_field_position_points(t) ==
    Table([i \in DOMAIN t |->
        LET r == t[i]
            start_bin == Cut(OppExpectedStart(t, r, "start_yard_line_bin"))
            end_bin == Cut(OppExpectedStart(t, r, "end_yard_line_bin"))
            from_start == MapNflAgg(t, start_bin)
            from_end == MapNflAgg(t, end_bin)
            points == RSub(from_start, from_end)
        IN  [start_opp_expected_yard_line_bin |-> start_bin,
             end_opp_expected_yard_line_bin |-> end_bin,
             expected_points_opp_from_start |-> from_start,
             expected_points_opp_from_end |-> from_end,
             field_position_points |-> points,
             drive_score |-> RAdd(r.expected_points, points)] @@ r])

----------------------------------------------------------------------------
(* The pipeline: preprocess_drives, then postprocess_drives, one action    *)
(* per function called.                                                    *)

CleanGames ==
    /\ pc = "raw"
    /\ df' = clean_games(NewFrame(drives))
    /\ pc' = "cleaned"
    /\ UNCHANGED <<drives, parser, args, round>>

MarkPlayoffs ==
    /\ pc = "cleaned"
    /\ df' = mark_playoffs(df)
    /\ pc' = "marked"
    /\ UNCHANGED <<drives, parser, args, round>>

Yards ==
    /\ pc = "marked"
    /\ df' = FilterAndYards(df, args.exclude_playoffs)
    /\ pc' = "yards"
    /\ UNCHANGED <<drives, parser, args, round>>

GetNextOpponentDrive ==
    /\ pc = "yards"
    /\ df' = get_next_opponent_drive(df)
    /\ pc' = "linked"
    /\ UNCHANGED <<drives, parser, args, round>>

BinYardLines ==
    /\ pc = "linked"
    /\ df' = BinAll(df)
    /\ pc' = "binned"
    /\ UNCHANGED <<drives, parser, args, round>>

MarkOffensiveScores ==
    /\ pc = "binned"
    /\ df' = mark_offensive_scores(df)
    /\ pc' = "offense"
    /\ UNCHANGED <<drives, parser, args, round>>

MarkDstScores ==
    /\ pc = "offense"
    /\ df' = mark_dst_scores(df)
    /\ pc' = "dst"
    /\ UNCHANGED <<drives, parser, args, round>>

GetCurrentScore ==
    /\ pc = "dst"
    /\ df' = get_current_score(df)
    /\ pc' = "score"
    /\ UNCHANGED <<drives, parser, args, round>>

AddFieldGoalPoints ==
    /\ pc = "score"
    /\ df' = add_field_goal_points(df)
    /\ pc' = "fg"
    /\ UNCHANGED <<drives, parser, args, round>>

AddFieldPositionPoints ==
    /\ pc = "fg"
    /\ df' = add_field_position_points(df)
    /\ pc' = "position"
    /\ UNCHANGED <<drives, parser, args, round>>

Next ==
    \/ CleanGames
    \/ MarkPlayoffs
    \/ Yards
    \/ GetNextOpponentDrive
    \/ BinYardLines
    \/ MarkOffensiveScores
    \/ MarkDstScores
    \/ GetCurrentScore
    \/ AddFieldGoalPoints
    \/ AddFieldPositionPoints

\* a raw drive record, as parse_game builds it
Drive(game_id, home, away, offense, qtr, time, yard, gained, pen, result, desc) ==
    [game_id |-> game_id,
     offensive_team |-> offense,
     defensive_team |-> IF home # offense THEN home ELSE away,
     home_team |-> home,
     away_team |-> away,
     start_quarter |-> qtr,
     start_time |-> time,
     start_yard_line |-> yard,
     yards_gained |-> gained,
     penalty_yards |-> pen,
     result |-> result,
     last_play_desc |-> desc]

----------------------------------------------------------------------------
(* Specification Spec: the pipeline over the drives of two games played on *)
(* the same day, in any order in the file.                                 *)

MaxDrives == 3


\* the k-th game of the regular season: sixteen a day from 1 September 2018
RegularGame(k) == 2018090100 + (k \div 16) * 100 + (k % 16)

\* two games of 9 September 2018, one after the other
FirstGame == RegularGame(128)
SecondGame == RegularGame(129)

\* home and away team of the first game, and what the second may be
FirstRoster == <<"KC", "SD">>
SecondRosters == {<<"KC", "SD">>, <<"SD", "KC">>, <<"DEN", "OAK">>, <<"NFC", "AFC">>}

\* row i of the file starts at its own clock time and yard line: the file
\* is not in play order
RowClock(i) ==
    CASE i = 1 -> <<"0", "9", ":", "3", "0">>
      [] i = 2 -> KickoffTime
      [] i = 3 -> <<"0", "4", ":", "1", "0">>
      [] i = 4 -> <<"1", "2", ":", "2", "0">>
      [] OTHER -> <<"0", "0", ":", "5", "0">>

RowYard(i) == Num(15 + 10 * i)

InitLink ==
    /\ \E second \in SecondRosters :
       \E n \in 1 .. MaxDrives :
       \E game \in [1 .. n -> {1, 2}] :
       \E side \in [1 .. n -> {1, 2}] :
       \E known \in [1 .. n -> BOOLEAN] :
          df = [i \in 1 .. n |->
                   LET roster == IF game[i] = 1 THEN FirstRoster ELSE second
                   IN  Drive(IF game[i] = 1 THEN FirstGame ELSE SecondGame,
                             roster[1], roster[2], roster[side[i]],
                             1, RowClock(i),
                             IF known[i] THEN RowYard(i) ELSE NaN,
                             Num(5), Num(0), "Punt", <<"punts">>)]
    /\ drives = df
    /\ pc = "raw"
    /\ parser = NoParser
    /\ args = NoArgs
    /\ round = 0

Spec == InitLink /\ [][Next]_vars

SameGame(t, i) == i < Len(t) /\ t[i].game_id = t[i + 1].game_id

\* C2: after get_next_opponent_drive, for two drives consecutive in
\* processing order and of the same game: if their offensive teams differ,
\* the earlier drive's next_start_yard_line is the later drive's
\* start_yard_line; if they are equal, it is undefined.
C2_NextDriveLinkage ==
    pc = "linked" =>
        \A i \in DOMAIN df :
            SameGame(df, i) =>
                IF df[i].offensive_team # df[i + 1].offensive_team
                THEN df[i].next_start_yard_line = df[i + 1].start_yard_line
                ELSE df[i].next_start_yard_line = NaN

C2_Witness ==
    /\ pc = "linked"
    /\ \E i \in DOMAIN df :
          /\ SameGame(df, i)
          /\ df[i].offensive_team # df[i + 1].offensive_team
          /\ df[i].next_start_yard_line = df[i + 1].start_yard_line
          /\ df[i].next_start_yard_line # NaN
    /\ \E i \in DOMAIN df :
          /\ SameGame(df, i)
          /\ df[i].offensive_team = df[i + 1].offensive_team
          /\ df[i + 1].start_yard_line # NaN

LastOfGame(t, i) == i = Len(t) \/ t[i].game_id # t[i + 1].game_id

\* C3: every drive that is the last of its game (the following row has
\* another game_id, or there is no following row) has next_start_yard_line
\* and next_offensive_team undefined, whatever the two adjacent games are.
C3_LastDriveUnlinked ==
    pc = "linked" =>
        \A i \in DOMAIN df :
            LastOfGame(df, i) =>
                /\ df[i].next_start_yard_line = NaN
                /\ df[i].next_offensive_team = NA

----------------------------------------------------------------------------
(* Specification SpecDst: the pipeline over the drives of one game, every  *)
(* result with every closing play.                                         *)

MaxDstDrives == 2

DstResults ==
    {"Touchdown", "Punt", "Missed FG", "Fumble", "Interception", "Safety"}

ClosingPlays ==
    {<<"punts">>,
     <<"TOUCHDOWN">>,
     <<"TOUCHDOWN", "REVERSED">>,
     <<"REVERSED", "TOUCHDOWN">>,
     <<"TOUCHDOWN", "NULLIFIED">>}

InitDst ==
    /\ \E n \in 1 .. MaxDstDrives :
       \E result \in [1 .. n -> DstResults] :
       \E desc \in [1 .. n -> ClosingPlays] :
          df = [i \in 1 .. n |->
                   Drive(FirstGame, FirstRoster[1], FirstRoster[2],
                         FirstRoster[1 + (i % 2)], 1, RowClock(i),
                         RowYard(i), Num(5), Num(0), result[i], desc[i])]
    /\ drives = df
    /\ pc = "raw"
    /\ parser = NoParser
    /\ args = NoArgs
    /\ round = 0

SpecDst == InitDst /\ [][Next]_vars

\* the pipeline has run to its end
PipelineDone == pc = "position"

\* the drive of the file that row r of the table was read from
Source(r) == drives[r.drive_id + 1]

Negations == {"REVERSED", "NULLIFIED"}

\* the closing play reports a touchdown, and no report of a touchdown is
\* followed by a reversal or a nullification
TouchdownStands(desc) ==
    /\ \E i \in DOMAIN desc : desc[i] = "TOUCHDOWN"
    /\ \A i \in DOMAIN desc :
          desc[i] = "TOUCHDOWN" =>
              \A j \in DOMAIN desc : j > i => desc[j] \notin Negations

\* C5: a drive with result 'Fumble' whose last_play_desc contains
\* 'TOUCHDOWN' not followed by 'REVERSED' or 'NULLIFIED' ends the pipeline
\* with result 'Fumble, Touchdown' and expected_points -7; likewise
\* 'Interception' becomes 'Interception, Touchdown'; the result of every
\* other drive is left as it was read.
C5_ResultAmendment ==
    PipelineDone =>
        \A i \in DOMAIN df :
            LET o == Source(df[i])
            IN  IF o.result = "Fumble" /\ TouchdownStands(o.last_play_desc)
                THEN /\ df[i].result = "Fumble, Touchdown"
                     /\ df[i].expected_points = Num(-7)
                ELSE IF o.result = "Interception"
                        /\ TouchdownStands(o.last_play_desc)
                THEN /\ df[i].result = "Interception, Touchdown"
                     /\ df[i].expected_points = Num(-7)
                ELSE df[i].result = o.result

C5_Witness ==
    /\ PipelineDone
    /\ \E i \in DOMAIN df :
          /\ Source(df[i]).result = "Fumble"
          /\ df[i].result = "Fumble, Touchdown"
          /\ df[i].expected_points = Num(-7)
    /\ \E i \in DOMAIN df :
          /\ Source(df[i]).result = "Interception"
          /\ df[i].last_play_desc = <<"TOUCHDOWN", "REVERSED">>
          /\ df[i].result = "Interception"

\* C6: any drive, whatever its result category, whose result is not
\* 'Touchdown' and whose last_play_desc signals a touchdown that is not
\* negated by 'REVERSED'/'NULLIFIED', gets expected_points -7.
C6_AnyDefensiveTouchdown ==
    pc = "dst" =>
        \A i \in DOMAIN df :
            LET o == Source(df[i])
            IN  o.result # "Touchdown" /\ TouchdownStands(o.last_play_desc)
                    => df[i].expected_points = Num(-7)

----------------------------------------------------------------------------
(* Specification SpecFg: the pipeline over drives that end in field-goal   *)
(* range, in two buckets and past the goal line.                           *)

FgResults == {"Field Goal", "Missed FG", "Blocked FG, Downs", "Touchdown"}

FgStart == Num(60)

\* the drive ends at 75 ("70-80"), at 85 ("80-90") or at 105 (no bucket)
FgGains == {Num(15), Num(25), Num(45)}

InitFg ==
    /\ \E n \in 1 .. MaxDrives :
       \E result \in [1 .. n -> FgResults] :
       \E gained \in [1 .. n -> FgGains] :
          df = [i \in 1 .. n |->
                   Drive(FirstGame, FirstRoster[1], FirstRoster[2],
                         FirstRoster[1 + (i % 2)], 1, RowClock(i),
                         FgStart, gained[i], Num(0), result[i], <<"kicks">>)]
    /\ drives = df
    /\ pc = "raw"
    /\ parser = NoParser
    /\ args = NoArgs
    /\ round = 0

SpecFg == InitFg /\ [][Next]_vars

\* the field-goal attempts of the table that end in row r's bucket
Attempts(r) ==
    {j \in DOMAIN df :
        /\ df[j].result \in {"Field Goal", "Missed FG", "Blocked FG",
                             "Blocked FG, Downs"}
        /\ df[j].end_yard_line_bin = r.end_yard_line_bin}

Made(r) == {j \in Attempts(r) : df[j].result = "Field Goal"}

----------------------------------------------------------------------------
(* Specification SpecPlayoffs: a whole season.  The regular season is one  *)
(* opening drive per game; the games after it, played in January, have a   *)
(* few drives each, read from the file before the regular season's.        *)

\* how many games short of PlayoffCutoff the regular season may be
SeasonShort == 1
\* how many drives the games after the regular season have in all
MaxLateDrives == 2


\* the two games after it: 5 January 2019
LateGame(g) == 2019010500 + (g - 1)

HalfTime == <<"0", "9", ":", "3", "0">>

\* where a late drive starts: the game's first play, later in the first
\* quarter, or the first play of the second quarter
LateStarts == {<<1, KickoffTime>>, <<1, HalfTime>>, <<2, KickoffTime>>}

InitPlayoffs ==
    /\ \E regular \in (PlayoffCutoff - SeasonShort) .. PlayoffCutoff :
       \E n \in 1 .. MaxLateDrives :
       \E game \in [1 .. n -> {1, 2}] :
       \E start \in [1 .. n -> LateStarts] :
          \* a game starts once
          /\ \A i \in 1 .. n : \A j \in 1 .. n :
                (i # j /\ game[i] = game[j])
                    => ~(/\ start[i] = <<1, KickoffTime>>
                         /\ start[j] = <<1, KickoffTime>>)
          /\ df = [i \in 1 .. n + regular |->
                     IF i <= n
                     THEN Drive(LateGame(game[i]), "KC", "SD", "KC",
                                start[i][1], start[i][2], RowYard(1),
                                Num(5), Num(0), "Punt", <<"punts">>)
                     ELSE Drive(RegularGame(i - n), "KC", "SD", "SD",
                                1, KickoffTime, RowYard(1), Num(5), Num(0),
                                "Punt", <<"punts">>)]
    /\ drives = df
    /\ pc = "raw"
    /\ parser = NoParser
    /\ args \in [exclude_playoffs : BOOLEAN]
    /\ round = 0

NextPlayoffs == CleanGames \/ MarkPlayoffs \/ Yards

SpecPlayoffs == InitPlayoffs /\ [][NextPlayoffs]_vars

\* the rows of the table that are marked game-starts
GameStarts ==
    {j \in DOMAIN df :
        df[j].start_quarter = 1 /\ df[j].start_time = KickoffTime}

\* the rows that are the 257th game-start of their season, the games of a
\* season counted in the order of their ids
FirstPlayoffStarts ==
    LET starts == GameStarts
    IN  IF Cardinality(starts) <= PlayoffCutoff THEN {}
        ELSE {j \in starts :
                Cardinality({k \in starts :
                                /\ df[k].season = df[j].season
                                /\ df[k].game_id <= df[j].game_id})
                    = PlayoffCutoff + 1}

\* C4: in a season with exactly 256 marked game-starts no drive has
\* is_playoffs = 1; when a 257th game-start exists, every drive of its game
\* and of every later game of the season has is_playoffs = 1, and no drive
\* of an earlier game has.
C4_PlayoffCutoff ==
    pc = "marked" =>
        LET starts == GameStarts
            first == FirstPlayoffStarts
        IN  \A s \in {df[i].season : i \in DOMAIN df} :
               /\ Cardinality({j \in starts : df[j].season = s})
                      = PlayoffCutoff
                    => \A i \in DOMAIN df :
                          df[i].season = s => df[i].is_playoffs = 0
               /\ \A j \in first :
                     df[j].season = s =>
                        \A i \in DOMAIN df :
                           df[i].season = s =>
                              df[i].is_playoffs
                                 = IF df[i].game_id >= df[j].game_id
                                   THEN 1 ELSE 0

C4_Witness ==
    /\ pc = "marked"
    /\ \E j \in FirstPlayoffStarts : \E i \in DOMAIN df :
          /\ df[i].game_id = df[j].game_id
          /\ df[i].start_quarter = 2
          /\ df[i].is_playoffs = 1
          /\ df[1].is_playoffs = 0

----------------------------------------------------------------------------
(* parse_games.py: parse_game, called by parse_season_games                *)

Digits == {"0", "1", "2", "3", "4", "5", "6", "7", "8", "9"}

\* int(key) raises ValueError unless key is a string of digits
IsInt(key) == key # <<>> /\ \A k \in DOMAIN key : key[k] \in Digits

RECURSIVE IntOf(_)
IntOf(key) ==
    IF key = <<>> THEN 0
    ELSE 10 * IntOf(SubSeq(key, 1, Len(key) - 1))
           + (CharCode(key[Len(key)]) - CharCode("0"))

DigitChar(d) == CHOOSE c \in Digits : CharCode(c) - CharCode("0") = d

\* str(n), n >= 0
RECURSIVE StrOf(_)
StrOf(n) ==
    IF n < 10 THEN <<DigitChar(n)>>
    ELSE Append(StrOf(n \div 10), DigitChar(n % 10))

Min(S) == CHOOSE x \in S : \A y \in S : x <= y
Max(S) == CHOOSE x \in S : \A y \in S : x >= y

\* What the try block of parse_game does with a drive:
\*   "KeyError", "AttributeError": drive['plays'] is missing, or is null and
\*       has no keys(); the handler evaluates drive['plays'].keys() again, to
\*       print it, and the exception leaves parse_game;
\*   "ValueError": a key is no integer, or there is no key (min of an empty
\*       list); the handler prints and the loop continues;
\*   "ok": first_play_key and last_play_key are set.
TryPlayKeys(drive) ==
    IF "plays" \notin DOMAIN drive THEN "KeyError"
    ELSE IF drive.plays.null THEN "AttributeError"
    ELSE IF \E key \in drive.plays.keys : ~IsInt(key) THEN "ValueError"
    ELSE IF drive.plays.keys = {} THEN "ValueError"
    ELSE "ok"

first_play_key(drive) == StrOf(Min({IntOf(key) : key \in drive.plays.keys}))
last_play_key(drive) == StrOf(Max({IntOf(key) : key \in drive.plays.keys}))

\* format_yardline: '50'; '<side> <n>', here split already; ''
format_yardline(start, team) ==
    IF start.yrdln = <<"50">> THEN Num(50)
    ELSE IF start.yrdln # <<>>
         THEN IF start.yrdln[1] = team THEN Num(IntOf(start.yrdln[2]))
              ELSE Num(100 - IntOf(start.yrdln[2]))
    ELSE NaN

\* the defensive team parse_game derives from posteam
DefensiveTeam(home, away, posteam) == IF home # posteam THEN home ELSE away

\* drive_dict
DriveDict(game, game_id, drive) ==
    [game_id |-> game_id,
     offensive_team |-> drive.posteam,
     defensive_team |-> DefensiveTeam(game.home, game.away, drive.posteam),
     home_team |-> game.home,
     away_team |-> game.away,
     start_quarter |-> drive.start.qtr,
     start_time |-> drive.start.time,
     start_yard_line |-> format_yardline(drive.start, drive.posteam),
     yards_gained |-> Num(drive.ydsgained),
     penalty_yards |-> Num(drive.penyds),
     result |-> drive.result,
     last_play_desc |-> <<"punts">>]

\* one pass of the loop over range(1, 1 + crntdrv)
ParseDrive ==
    /\ pc = "parse"
    /\ parser.status = "running"
    /\ parser.i <= parser.game.crntdrv
    /\ LET game == parser.game
           drive == game.drives[parser.i]
           step == [parser EXCEPT !.i = @ + 1]
       IN  IF "posteam" \notin DOMAIN drive
           THEN \* drives.get(str(i)) is None, or an empty drive: continue
                parser' = step
           ELSE IF TryPlayKeys(drive) \in {"KeyError", "AttributeError"}
           THEN parser' = [parser EXCEPT !.status = "raised"]
           ELSE IF TryPlayKeys(drive) = "ValueError"
           THEN parser' = step
           ELSE IF \/ first_play_key(drive) \notin drive.plays.keys
                   \/ last_play_key(drive) \notin drive.plays.keys
           THEN \* drive['plays'][first_play_key]: KeyError, outside the try
                parser' = [parser EXCEPT !.status = "raised"]
           ELSE parser' = [step EXCEPT !.game_drives =
                               Append(@, DriveDict(game, FirstGame, drive))]
    /\ UNCHANGED <<drives, df, pc, args, round>>

\* parse_game returns and parse_season_games extends the season's data; or
\* parse_game has raised, and parse_season_games prints and goes on
ParseDone ==
    /\ pc = "parse"
    /\ \/ parser.status = "running" /\ parser.i > parser.game.crntdrv
       \/ parser.status = "raised"
    /\ IF parser.status = "running"
       THEN /\ parser' = [parser EXCEPT !.status = "returned"]
            /\ drives' = drives \o parser.game_drives
       ELSE /\ parser' = [parser EXCEPT !.status = "dropped"]
            /\ drives' = drives
    /\ pc' = "raw"
    /\ UNCHANGED <<df, args, round>>

----------------------------------------------------------------------------
(* Specification SpecParse: one game file parsed, then clean_games.        *)

MaxParseDrives == 2

ParseRosters == {<<"JAC", "TEN">>, <<"KC", "SD">>}

\* the play-index mappings of a drive: absent (no such field); null;
\* empty; a key that is no integer; a key that is not the str of its int;
\* two plays, whose keys order differently as strings and as integers
NullPlays == [null |-> TRUE, keys |-> {}]
PlayMaps ==
    {[null |-> FALSE, keys |-> ks] :
        ks \in {{}, {<<"x">>}, {<<"0", "7">>}, {<<"9">>, <<"1", "0">>}}}

\* possession i of a game: absent, or a drive of the home team, of the away
\* team or of a team under another code
RawDrives(home, away, i) ==
    LET base(team) ==
            [posteam |-> team,
             start |-> [qtr |-> 1, time |-> RowClock(i),
                        yrdln |-> <<home, StrOf(15 + 10 * i)>>],
             ydsgained |-> 5, penyds |-> 0, result |-> "Punt"]
    IN  {<<>>}
          \cup {base(team) : team \in {home, away, "JAX"}}
          \cup {base(team) @@ [plays |-> NullPlays] :
                   team \in {home, away, "JAX"}}
          \cup {base(team) @@ [plays |-> m] :
                   team \in {home, away, "JAX"}, m \in PlayMaps}

InitParse ==
    /\ \E roster \in ParseRosters :
       \E n \in 1 .. MaxParseDrives :
       \E ds \in [1 .. n -> UNION {RawDrives(roster[1], roster[2], i) :
                                      i \in 1 .. n}] :
          /\ \A i \in 1 .. n : ds[i] \in RawDrives(roster[1], roster[2], i)
          /\ parser = [status |-> "running", i |-> 1, game_drives |-> <<>>,
                       game |-> [home |-> roster[1], away |-> roster[2],
                                 crntdrv |-> n, drives |-> ds]]
    /\ drives = <<>>
    /\ df = <<>>
    /\ pc = "parse"
    /\ args = NoArgs
    /\ round = 0

NextParse == ParseDrive \/ ParseDone \/ CleanGames

SpecParse == InitParse /\ [][NextParse]_vars

\* possession i is present and its play-index mapping is sound
Present(game, i) == "posteam" \in DOMAIN game.drives[i]

SoundPlays(drive) ==
    /\ "plays" \in DOMAIN drive
    /\ ~drive.plays.null
    /\ drive.plays.keys # {}
    /\ \A key \in drive.plays.keys : IsInt(key) /\ StrOf(IntOf(key)) = key

\* the clock strings of the possessions that are to give a record, in
\* ascending order of their index
RECURSIVE Expected(_, _)
Expected(game, i) ==
    IF i > game.crntdrv THEN <<>>
    ELSE (IF Present(game, i) /\ SoundPlays(game.drives[i])
          THEN <<game.drives[i].start.time>> ELSE <<>>)
           \o Expected(game, i + 1)

\* C8: a possession whose play-index mapping is missing, empty or malformed
\* makes parse_game skip that drive only: parse_game never aborts the game
\* for it, and returns one record for every other present possession index
\* of 1..crntdrv, in ascending order.
C8_OnlyTheDriveSkipped ==
    pc # "parse" =>
        /\ parser.status = "returned"
        /\ [k \in DOMAIN parser.game_drives |->
               parser.game_drives[k].start_time]
             = Expected(parser.game, 1)

DistinctTeams(r) ==
    /\ r.offensive_team # r.defensive_team
    /\ {r.offensive_team, r.defensive_team} = {r.home_team, r.away_team}

\* C9: every drive record of parse_game has an offensive and a defensive
\* team that are two distinct teams, each one of home_team and away_team,
\* whatever the raw possession-team field holds, and still has after
\* clean_games.
C9_OffenseAndDefense ==
    /\ \A k \in DOMAIN parser.game_drives :
          DistinctTeams(parser.game_drives[k])
    /\ pc = "cleaned" => \A i \in DOMAIN df : DistinctTeams(df[i])

----------------------------------------------------------------------------
(* opponent_strength_adjustment                                            *)

\* the defaults of n_iters and step_size
DefaultIters == 5
StepSize == Rat(1, 5)

\* a group's value taken for each of its rows, without the aggregation
GroupMean_OwnValue(t, r, team_column, value_column) == r[value_column]

\* groupby(['season', team_column])[value_column].transform('mean'), at row r
GroupMean(t, r, team_column, value_column) ==
    LET grp == SelectSeq(t, LAMBDA q :
                   q.season = r.season /\ q[team_column] = r[team_column])
    IN  Mean([j \in DOMAIN grp |-> grp[j][value_column]])

\* both adjusted scores start as the drive score
AdjustColumns(t) ==
    Table([i \in DOMAIN t |->
        [adj_offensive_score |-> t[i].drive_score,
         adj_defensive_score |-> t[i].drive_score] @@ t[i]])

\* one round in which the second mean is taken after the first write
AdjustOnce_Sequential(t, step_size) ==
    LET first == Table([i \in DOMAIN t |->
            [adj_offensive_score |->
                 RSub(t[i].adj_offensive_score,
                      RMul(step_size, GroupMean(t, t[i], "defensive_team",
                                                "adj_defensive_score")))]
              @@ t[i]])
    IN  Table([i \in DOMAIN t |->
            [adj_defensive_score |->
                 RSub(t[i].adj_defensive_score,
                      RMul(step_size, GroupMean(first, first[i],
                                                "offensive_team",
                                                "adj_offensive_score")))]
              @@ first[i]])

\* one round: both means are taken before either score is written
AdjustOnce(t, step_size) ==
    Table([i \in DOMAIN t |->
        LET offensive_adj ==
                GroupMean(t, t[i], "defensive_team", "adj_defensive_score")
            defensive_adj ==
                GroupMean(t, t[i], "offensive_team", "adj_offensive_score")
        IN  [adj_offensive_score |->
                 RSub(t[i].adj_offensive_score, RMul(step_size, offensive_adj)),
             adj_defensive_score |->
                 RSub(t[i].adj_defensive_score, RMul(step_size, defensive_adj))]
              @@ t[i]])

AdjustStart ==
    /\ pc = "scored"
    /\ df' = AdjustColumns(df)
    /\ round' = 0
    /\ pc' = "adjusting"
    /\ UNCHANGED <<drives, parser, args>>

AdjustRound ==
    /\ pc = "adjusting"
    /\ round < args.n_iters
    /\ df' = AdjustOnce(df, args.step_size)
    /\ round' = round + 1
    /\ UNCHANGED <<drives, pc, parser, args>>

AdjustReturn ==
    /\ pc = "adjusting"
    /\ round = args.n_iters
    /\ pc' = "adjusted"
    /\ UNCHANGED <<drives, df, parser, args, round>>

----------------------------------------------------------------------------
(* Specification SpecAdjust: opponent_strength_adjustment on a small table *)
(* of scored drives.                                                       *)

MaxAdjDrives == 3

\* the drives are of one season, or the first is of the season before
AdjSeason(split, i) == IF split /\ i = 1 THEN 2017 ELSE 2018

\* offense and defense: KC meets two opponents
AdjMatchups == {<<"KC", "SD">>, <<"SD", "KC">>, <<"KC", "DEN">>}
AdjScores == {Num(0 - 1), Num(0), Num(1)}

InitAdjust ==
    /\ \E n \in 1 .. MaxAdjDrives :
       \E split \in BOOLEAN :
       \E m \in [1 .. n -> AdjMatchups] :
       \E x \in [1 .. n -> AdjScores] :
          drives = [i \in 1 .. n |->
                       [season |-> AdjSeason(split, i),
                        offensive_team |-> m[i][1],
                        defensive_team |-> m[i][2],
                        drive_score |-> x[i]]]
    /\ df = drives
    /\ pc = "scored"
    /\ parser = NoParser
    /\ \E n \in {0, 1, DefaultIters} :
          args = [exclude_playoffs |-> FALSE, n_iters |-> n,
                  step_size |-> StepSize]
    /\ round = 0

NextAdjust == AdjustStart \/ AdjustRound \/ AdjustReturn

SpecAdjust == InitAdjust /\ [][NextAdjust]_vars

\* the mean drive_score of each group of the drives handed over
MeanScore(team_column, i) ==
    LET grp == SelectSeq(drives, LAMBDA q :
                   /\ q.season = drives[i].season
                   /\ q[team_column] = drives[i][team_column])
    IN  Mean([j \in DOMAIN grp |-> grp[j].drive_score])

GroupMeans(team_column) == {MeanScore(team_column, i) : i \in DOMAIN drives}

\* every (season, defensive_team) group and every (season, offensive_team)
\* group has the same mean drive_score
Balanced ==
    Cardinality(GroupMeans("defensive_team") \cup GroupMeans("offensive_team"))
        = 1

BalancedAtZero ==
    GroupMeans("defensive_team") \cup GroupMeans("offensive_team") = {Num(0)}

Adjusting == pc \in {"adjusting", "adjusted"}

NoNetAdjustment ==
    \A i \in DOMAIN df : df[i].adj_offensive_score = df[i].drive_score

\* C7, as stated: on input whose groups all have the same mean drive_score,
\* adj_offensive_score equals drive_score for every drive after any number
\* of rounds.
C7_BalancedUnadjusted == (Adjusting /\ Balanced) => NoNetAdjustment

\* C7: on input whose (season, defensive_team) groups and (season,
\* offensive_team) groups all have mean drive_score 0, adj_offensive_score
\* equals drive_score for every drive after any number of rounds.
C7_BalancedAtZeroUnadjusted == (Adjusting /\ BalancedAtZero) => NoNetAdjustment

C7_Witness ==
    /\ pc = "adjusted"
    /\ round = DefaultIters
    /\ BalancedAtZero
    /\ \E i \in DOMAIN df : df[i].drive_score # Num(0)
    /\ \E i, j \in DOMAIN df : df[i].offensive_team # df[j].offensive_team

\* the mean of value_column over the rows of df that share row i's season
\* and row i's team_column
GroupAverage(i, team_column, value_column) ==
    LET same == SelectSeq(df, LAMBDA q :
                    /\ q.season = df[i].season
                    /\ q[team_column] = df[i][team_column])
    IN  Mean([j \in DOMAIN same |-> same[j][value_column]])

StartsAtDriveScore ==
    (pc = "scored" /\ pc' = "adjusting") =>
        \A i \in DOMAIN df' :
            /\ df'[i].adj_offensive_score = df[i].drive_score
            /\ df'[i].adj_defensive_score = df[i].drive_score

SimultaneousRound ==
    (pc = "adjusting" /\ pc' = "adjusting") =>
        /\ round' = round + 1
        /\ round' <= args.n_iters
        /\ \A i \in DOMAIN df' :
              /\ df'[i].adj_offensive_score
                    = RSub(df[i].adj_offensive_score,
                           RMul(args.step_size,
                                GroupAverage(i, "defensive_team",
                                             "adj_defensive_score")))
              /\ df'[i].adj_defensive_score
                    = RSub(df[i].adj_defensive_score,
                           RMul(args.step_size,
                                GroupAverage(i, "offensive_team",
                                             "adj_offensive_score")))

ExactlyNRounds ==
    pc' = "adjusted" =>
        /\ round' = args.n_iters
        /\ df' = df
        /\ args.n_iters = 0 =>
              \A i \in DOMAIN df' :
                  /\ df'[i].adj_offensive_score = df'[i].drive_score
                  /\ df'[i].adj_defensive_score = df'[i].drive_score

DriveScoreKept ==
    /\ DOMAIN df' = DOMAIN drives
    /\ \A i \in DOMAIN df' : df'[i].drive_score = drives[i].drive_score

----------------------------------------------------------------------------
(* Specification SpecPosition: the pipeline over one game whose drives     *)
(* start at 25, at 35 or at an unrecorded yard line.                       *)

PosStarts == {NaN, Num(25), Num(35)}
PosGains == {Num(0), Num(10)}

\* the drives of the file are in the order they were played
PosClock(i) == <<"1", DigitChar(5 - i), ":", "0", "0">>

\* touchdowns and punts in turn
PosResult(first, i) ==
    IF (i % 2 = 1) = first THEN "Touchdown" ELSE "Punt"

InitPosition ==
    /\ \E n \in 1 .. MaxDrives :
       \E first \in BOOLEAN :
       \E start \in [1 .. n -> PosStarts] :
       \E gained \in [1 .. n -> PosGains] :
          df = [i \in 1 .. n |->
                   Drive(FirstGame, FirstRoster[1], FirstRoster[2],
                         FirstRoster[1 + (i % 2)], 1, PosClock(i),
                         start[i], gained[i], Num(0), PosResult(first, i),
                         <<"punts">>)]
    /\ drives = df
    /\ pc = "raw"
    /\ parser = NoParser
    /\ args = NoArgs
    /\ round = 0

SpecPosition == InitPosition /\ [][Next]_vars

\* the yard line the opponent is expected to start at after a drive of row
\* i's bucket (its start bucket or its end bucket)
ExpectedEntry(i, bin_column) ==
    LET same == SelectSeq(df, LAMBDA q : q[bin_column] = df[i][bin_column])
    IN  IF df[i][bin_column] = NA THEN NaN
        ELSE Mean([j \in DOMAIN same |-> same[j].next_start_yard_line])

\* the league-average expected_points of the drives that start in the
\* bucket of yard line x, undefined when there is no such drive
Lookup(x) ==
    LET from == SelectSeq(df, LAMBDA q :
                    Cut(x) # NA /\ q.start_yard_line_bin = Cut(x))
    IN  Mean([j \in DOMAIN from |-> from[j].expected_points])

LookupFromStart(i) == Lookup(ExpectedEntry(i, "start_yard_line_bin"))
LookupFromEnd(i) == Lookup(ExpectedEntry(i, "end_yard_line_bin"))

\* C11: after add_field_position_points every drive has drive_score =
\* expected_points + (lookup from start - lookup from end), the lookups
\* being the league-average expected_points of the bucket the opponent is
\* expected to start in; when either lookup has no value,
\* field_position_points and drive_score are undefined, never 0.
C11_FieldPositionPoints ==
    pc = "position" =>
        \A i \in DOMAIN df :
            IF IsNaN(LookupFromStart(i)) \/ IsNaN(LookupFromEnd(i))
            THEN /\ IsNaN(df[i].field_position_points)
                 /\ IsNaN(df[i].drive_score)
            ELSE /\ df[i].field_position_points
                       = RSub(LookupFromStart(i), LookupFromEnd(i))
                 /\ df[i].drive_score
                       = RAdd(df[i].expected_points,
                              df[i].field_position_points)

C11_Witness ==
    /\ pc = "position"
    /\ \E i \in DOMAIN df :
          /\ ~IsNaN(df[i].drive_score)
          /\ df[i].field_position_points # Num(0)
    /\ \E i \in DOMAIN df :
          /\ df[i].start_yard_line_bin # NA
          /\ df[i].end_yard_line_bin # NA
          /\ ~IsNaN(df[i].expected_points)
          /\ IsNaN(LookupFromStart(i)) \/ IsNaN(LookupFromEnd(i))
          /\ IsNaN(df[i].drive_score)

----------------------------------------------------------------------------
(* Specification SpecYards: the pipeline over one game whose drives start  *)
(* near a goal line or at an unrecorded yard line, and gain or lose yards. *)

YardStarts == {NaN, Num(5), Num(95)}

\* yards gained and penalty yards of a drive
Yardages == {<<0 - 10, 0>>, <<10, 15>>, <<0, 0 - 15>>}

InitYards ==
    /\ \E n \in 1 .. MaxDrives :
       \E start \in [1 .. n -> YardStarts] :
       \E y \in [1 .. n -> Yardages] :
          df = [i \in 1 .. n |->
                   Drive(FirstGame, FirstRoster[1], FirstRoster[2],
                         FirstRoster[1 + (i % 2)], 1, PosClock(i),
                         start[i], Num(y[i][1]), Num(y[i][2]), "Punt",
                         <<"punts">>)]
    /\ drives = df
    /\ pc = "raw"
    /\ parser = NoParser
    /\ args = NoArgs
    /\ round = 0

SpecYards == InitYards /\ [][Next]_vars

\* the table has its yardage columns
HasYards == pc \notin {"raw", "cleaned", "marked"}

\* ==, as the floats of a column compare: NaN equals nothing
FloatEq(x, y) == ~IsNaN(x) /\ ~IsNaN(y) /\ x = y

YardSum(r) == RAdd(RAdd(r.start_yard_line, r.yards_gained), r.penalty_yards)

\* C13, as stated: every drive has end_yard_line == start_yard_line +
\* yards_gained + penalty_yards.
C13_EndYardLineEverywhere ==
    HasYards => \A i \in DOMAIN df : FloatEq(df[i].end_yard_line, YardSum(df[i]))

\* C13: every drive whose start_yard_line is recorded has end_yard_line ==
\* start_yard_line + yards_gained + penalty_yards, as an integer and with
\* no clipping to [0, 100]; a drive whose start_yard_line is not recorded
\* has no end_yard_line either.
C13_EndYardLine ==
    HasYards =>
        \A i \in DOMAIN df :
            IF IsNaN(df[i].start_yard_line)
            THEN IsNaN(df[i].end_yard_line)
            ELSE df[i].end_yard_line
                    = Num(df[i].start_yard_line[1] + df[i].yards_gained[1]
                            + df[i].penalty_yards[1])

C13_Witness ==
    /\ PipelineDone
    /\ \E i \in DOMAIN df : RLess(df[i].end_yard_line, Num(0))
    /\ \E i \in DOMAIN df : RLess(Num(FieldLength), df[i].end_yard_line)
    /\ \E i \in DOMAIN df : IsNaN(df[i].start_yard_line)

----------------------------------------------------------------------------
(* Specification SpecOrder: the pipeline over the drives of two games, in  *)
(* any order in the file, that start in the first or second quarter with   *)
(* more or with less than ten minutes left.                                *)

\* quarter and clock at the start of a drive; clocks are 'MM:SS'
StartSlots ==
    {<<1, KickoffTime>>,
     <<1, <<"1", "0", ":", "0", "5">>>>,
     <<1, <<"0", "9", ":", "3", "0">>>>,
     <<2, KickoffTime>>}

InitOrder ==
    /\ \E n \in 1 .. MaxDrives :
       \E game \in [1 .. n -> {FirstGame, SecondGame}] :
       \E slot \in [1 .. n -> StartSlots] :
          df = [i \in 1 .. n |->
                   Drive(game[i], FirstRoster[1], FirstRoster[2],
                         FirstRoster[1 + (i % 2)], slot[i][1], slot[i][2],
                         RowYard(i), Num(5), Num(0), "Punt", <<"punts">>)]
    /\ drives = df
    /\ pc = "raw"
    /\ parser = NoParser
    /\ args = NoArgs
    /\ round = 0

SpecOrder == InitOrder /\ [][Next]_vars

\* the seconds left in the quarter that clock string 'minutes:seconds' shows
SecondsLeft(time) ==
    LET colon == CHOOSE k \in DOMAIN time : time[k] = ":"
    IN  60 * IntOf(SubSeq(time, 1, colon - 1))
          + IntOf(SubSeq(time, colon + 1, Len(time)))

\* row a is played no later than row b
PlayedNoLater(a, b) ==
    \/ a.game_id < b.game_id
    \/ /\ a.game_id = b.game_id
       /\ \/ a.start_quarter < b.start_quarter
          \/ /\ a.start_quarter = b.start_quarter
             /\ SecondsLeft(a.start_time) >= SecondsLeft(b.start_time)

\* the sequential computations run on the table as it is from mark_playoffs
\* on: the count of games within mark_playoffs, after its sort
Sorted == pc \notin {"raw", "cleaned"}

\* C14: whenever a sequential computation runs (the count of games in
\* mark_playoffs, the next-drive linkage, the running score), the table is
\* in play order: by game_id, then by start_quarter ascending, then by the
\* clock with more time left first, also between a clock of ten minutes or
\* more and one of less; and the count of games never decreases down the
\* table.
C14_PlayOrder ==
    Sorted =>
        \A i, j \in DOMAIN df :
            i < j => /\ PlayedNoLater(df[i], df[j])
                     /\ df[i].game_in_season <= df[j].game_in_season

C14_Witness ==
    /\ pc = "linked"
    /\ \E i \in DOMAIN df :
          /\ i < Len(df)
          /\ df[i].game_id = df[i + 1].game_id
          /\ df[i].start_quarter = df[i + 1].start_quarter
          /\ SecondsLeft(df[i].start_time) >= 600
          /\ SecondsLeft(df[i + 1].start_time) < 600
          /\ df[i].drive_id > df[i + 1].drive_id

----------------------------------------------------------------------------
(* Specification SpecScore: the pipeline over one or two games of JAC at   *)
(* home against TEN, as parse_game records them: the possession team of a  *)
(* drive is the home team, the away team, or the home team under its other *)
(* code, JAX.                                                              *)

ScoreRoster == <<"JAC", "TEN">>

Possessions == {ScoreRoster[1], ScoreRoster[2], "JAX"}

\* result and last play of a drive: a touchdown with its extra point, a
\* punt, a fumble returned for a touchdown
Outcomes ==
    {<<"Touchdown", <<"extra point is GOOD">>>>,
     <<"Punt", <<"punts">>>>,
     <<"Fumble", <<"FUMBLES", "TOUCHDOWN">>>>}

InitScore ==
    /\ \E n \in 1 .. MaxDrives :
       \E split \in BOOLEAN :
       \E posteam \in [1 .. n -> Possessions] :
       \E outcome \in [1 .. n -> Outcomes] :
          df = [i \in 1 .. n |->
                   Drive(IF split /\ i > 1 THEN SecondGame ELSE FirstGame,
                         ScoreRoster[1], ScoreRoster[2], posteam[i],
                         1, PosClock(i), RowYard(i), Num(5), Num(0),
                         outcome[i][1], outcome[i][2])]
    /\ drives = df
    /\ pc = "raw"
    /\ parser = NoParser
    /\ args = NoArgs
    /\ round = 0

SpecScore == InitScore /\ [][Next]_vars

HasScores == pc \in {"score", "fg", "position"}

\* rows i < j are consecutive drives of one game
ConsecutiveInGame(i, j) ==
    /\ i < j
    /\ df[i].game_id = df[j].game_id
    /\ \A k \in DOMAIN df : (i < k /\ k < j) => df[k].game_id # df[i].game_id

FirstInGame(i) ==
    \A k \in DOMAIN df : k < i => df[k].game_id # df[i].game_id

\* the score of a team of the game at the start of drive r
ScoreAtStart(r, team) ==
    CASE team = r.home_team -> {r.home_score_start}
      [] team = r.away_team -> {r.away_score_start}
      [] OTHER -> {}

\* C15: the first drive of every game has home_score_start = 0 and
\* away_score_start = 0; of two consecutive drives of a game the later
\* starts at the score the earlier ends at; and on every drive
\* offensive_team_score_start and defensive_team_score_start are the start
\* scores of the two teams, the one on offense and the one on defense, and
\* are never negative.
C15_RunningScore ==
    HasScores =>
        /\ \A i \in DOMAIN df :
              FirstInGame(i) =>
                  df[i].home_score_start = 0 /\ df[i].away_score_start = 0
        /\ \A i, j \in DOMAIN df :
              ConsecutiveInGame(i, j) =>
                  /\ df[j].home_score_start = df[i].home_score_end
                  /\ df[j].away_score_start = df[i].away_score_end
        /\ \A i \in DOMAIN df :
              /\ {df[i].offensive_team_score_start}
                    = ScoreAtStart(df[i], df[i].offensive_team)
              /\ {df[i].defensive_team_score_start}
                    = ScoreAtStart(df[i], df[i].defensive_team)
              /\ df[i].offensive_team_score_start >= 0
              /\ df[i].defensive_team_score_start >= 0

----------------------------------------------------------------------------
(* Specification SpecBin: bin_yard_lines applied to one field position.    *)

YardSlack == 3

\* field positions in half yards, from YardSlack yards short of the goal
\* line to YardSlack yards past the other one, and NaN
YardValues ==
    {Rat(h, 2) : h \in (-2 * YardSlack) .. (2 * (FieldLength + YardSlack))}
      \cup {NaN}


InitBin ==
    /\ \E v \in YardValues : df = <<[start_yard_line |-> v]>>
    /\ drives = df
    /\ pc = "cut"
    /\ parser = NoParser
    /\ args = NoArgs
    /\ round = 0

BinOne ==
    /\ pc = "cut"
    /\ df' = BinYardLinesOf(df, "start_yard_line", "start")
    /\ pc' = "cut_done"
    /\ UNCHANGED <<drives, parser, args, round>>

NextBin == BinOne

SpecBin == InitBin /\ [][NextBin]_vars

\* the ten 10-yard buckets, each named by the yard line it starts at
TenBuckets == {BinLabel(lo) : lo \in BinLower}

InField(x) == RLeq(Num(0), x) /\ RLeq(x, Num(FieldLength))

\* C1: bin_yard_lines maps every finite field position in [0,100], the end
\* points 0 and 100 included, to one of the ten 10-yard buckets, and puts
\* the boundary value 50 in the bucket that starts at 50 ("50-60").
C1_EveryPositionBinned ==
    pc = "cut_done" =>
        \A i \in DOMAIN df :
            InField(df[i].start_yard_line) =>
                /\ df[i].start_yard_line_bin \in TenBuckets
                /\ df[i].start_yard_line = Num(50)
                      => df[i].start_yard_line_bin = "50-60"

====
